---- MODULE Spec2Model ----
(***************************************************************************)
(* The voice-call coordinator of src/src/hooks/useVoiceCall.ts: one React  *)
(* hook instance per participant whose page is open ("mounted"), a room    *)
(* broadcast channel between the mounted hooks, and the rest of the room   *)
(* (participants whose pages are not modelled) as a source of signaling    *)
(* messages.                                                               *)
(*                                                                         *)
(* React state is modelled twice: the state itself (isInCall, peers, ...), *)
(* which setX() calls update, and `view`, the values captured by the       *)
(* callbacks of the last render, which is what the handlers read           *)
(* (`peers.has(peerId)`, `localStream`, `isInCall`).  Render copies the    *)
(* first into the second.  An async handler is a task bound to the         *)
(* RTCPeerConnection it created; each await is one step.                   *)
(***************************************************************************)
EXTENDS Integers, Sequences, FiniteSets, TLC

\* ---------------------------------------------------------------- bounds
MaxConns == 3      \* RTCPeerConnections one hook creates in a run
MaxForeign == 3    \* signaling messages from participants outside the model
MaxJoins == 1      \* joinCall invocations per hook
MaxGather == 1     \* ICE candidates one connection gathers and publishes
MaxCand == 3       \* ICE candidates from outside, in the candidate runs
IceForeign == 2    \* other messages from outside, in the candidate runs
MaxFaults == 1     \* createOffer / setRemoteDescription calls the transport rejects
LifeJoins == 2     \* joinCall invocations per hook, in the runs of the user's controls
LifeCalls == 2     \* user calls that return early or toggle, in those runs
LifeForeign == 2   \* signaling messages from outside, in those runs
MaxBlips == 2      \* 'disconnected' reports of the transport, in the runs of the link
LinkForeign == 2   \* signaling messages from outside, in those runs
MeshForeign == 2   \* signaling messages of the first outside participant, in the mesh runs
MeshOthers == 1    \* signaling messages of the second outside participant, in those runs
RetryFaults == 3   \* createOffer calls the transport rejects, in the runs of the retries
RetryForeign == 2  \* signaling messages from outside, in those runs
FairForeign == 2   \* signaling messages from outside, in the runs with fairness
FairBlips == 1     \* 'disconnected' reports of the transport, in those runs
MaxBreaks == 1     \* 'failed' reports of the transport, in those runs

\* --------------------------------------------------------------- identity
Users == {"a", "b"}          \* participants whose hook is modelled
Outsider == "c"              \* a participant of the room outside the model
Bystander == "d"             \* a second participant outside the model
Ids == Users \cup {Outsider, Bystander}
All == "all"                 \* `to` absent: broadcast to the room

\* useVoiceCall(roomId, userId, isAnchor): "a" is an anchor, "b" audience
isAnchor(u) == u = "a"

VARIABLES
    mounted,        \* the users whose hook is mounted (page open)
    isInCall,       \* useState(false)
    isConnecting,   \* useState(false)
    isMuted,        \* useState(false)
    error,          \* useState('')
    localStream,    \* useState(null): 0, or the id of the capture stream
    peers,          \* useState(new Map()): peerId -> connection index, 0 absent
    view,           \* what the callbacks of the last render captured
    conns,          \* every RTCPeerConnection the hook created, with its
                    \* PeerConnection wrapper and the handler awaiting on it
    retryTimers,    \* pending setTimeout(() => handlePeerJoin(p, n), 1000)
    remoteAudios,   \* remoteAudiosRef: peer ids that have an audio element
    audioElements,  \* the Audio elements of the hook: per peer id, how many
                    \* are in document.body (class remote-audio-<peerId>),
                    \* and the srcObject of the one remoteAudiosRef holds
                    \* (the connection whose stream it plays, 0 for none)
    media,          \* the runtime: getUserMedia calls pending, streams
                    \* acquired, live; whether its RTCPeerConnection has
                    \* a restartIce method
    inbox,          \* signaling messages delivered to a hook, not yet handled
    sent,           \* every message a hook published: [from, type, to]
    joins,          \* joinCall invocations still to come (bound)
    fuel,           \* outside messages still to come (bound)
    ice,            \* outside ICE candidates still to come (bound)
    faults,         \* transport rejections still to come (bound)
    budget,         \* events still to come (bounds): blips (transport
                    \* disconnects), calls (user calls that return early),
                    \* others (messages of a second remote participant),
                    \* breaks (transport failures)
    hist            \* per hook, history for the properties: left (leaveCall
                    \* ran and joinCall has not since), echo (own messages
                    \* handled), found (who was in the call at joinCall),
                    \* leaves (leaveCall invocations), idle (a leaveCall
                    \* returned early: 1 before any leave, 2 after one),
                    \* refused (a joinCall returned early), toggled (flips
                    \* at every toggleMute), announced (Join messages
                    \* published since the last leaveCall), resubs (times
                    \* the channel was unsubscribed and subscribed again),
                    \* leftAt (connections created before the last leaveCall),
                    \* gone (peers whose Leave was handled, with no Join
                    \* or Offer of theirs handled since), stray (flips when
                    \* an Answer or a candidate is handled whose sender has
                    \* no entry in the Map)

vars == <<mounted, isInCall, isConnecting, isMuted, error, localStream, peers,
          view, conns, retryTimers, remoteAudios, audioElements, media, inbox,
          sent, joins, fuel, ice, faults, budget, hist>>

reactVars == <<isInCall, isConnecting, isMuted, error, localStream>>

\* ---------------------------------------------------------------- helpers
NoPeers == [p \in Ids |-> 0]

NoElements == [inBody |-> [p \in Ids |-> 0], srcObject |-> [p \in Ids |-> 0]]

NoBudget == [blips |-> 0, calls |-> 0, others |-> 0, breaks |-> 0]

ViewOf(u) == [isInCall |-> isInCall[u], isConnecting |-> isConnecting[u],
              localStream |-> localStream[u], peers |-> peers[u]]

\* The callbacks in use are those of the latest state
Rendered(u) == view[u] = ViewOf(u)

\* A re-render is prompt: of all events only a signaling message that is
\* already on its way is handled before the re-render a state update asks for
Settled(u) == u \in mounted /\ Rendered(u)

Msg(t, f, to) == [type |-> t, from |-> f, to |-> to]

\* sendSignalingMessage: a broadcast on the room channel; every other
\* mounted hook receives it, whatever its `to`
Broadcast(box, m) ==
    [v \in Users |-> IF v \in mounted /\ v # m.from
                     THEN Append(box[v], m) ELSE box[v]]

\* new RTCPeerConnection + its PeerConnection wrapper {id, connection,
\* iceCandidatesQueue: []}, and the position of the handler that made it
NewConn(u, p, via, task, retry) ==
    [peer |-> p, via |-> via, closed |-> FALSE, sig |-> "stable",
     remote |-> FALSE, queue |-> <<>>, applied |-> <<>>, arrived |-> 0,
     task |-> task, retry |-> retry, ans |-> 0, ansDrain |-> FALSE,
     local |-> FALSE, cs |-> "new", tracks |-> view[u].localStream # 0,
     gathered |-> 0, grace |-> 0,
     \* history, read by the properties only: candidates that were queued,
     \* whether the hook was in the call when the session was made,
     \* whether a grace timer found the connection still disconnected, the
     \* times the handler sent its local description, whether it waited
     \* for gathering before, the restartIce() calls
     queued |-> 0, inCall |-> isInCall[u], expired |-> FALSE,
     posted |-> 0, waited |-> FALSE, restarts |-> 0,
     \* whether the track event of the connection has fired
     heard |-> FALSE]

Tasks == {"none", "createOffer", "gatherOffer", "setRemote", "drain",
          "createAnswer", "gatherAnswer", "done", "failed"}

FreshWith(restartIce) ==
    /\ isInCall = [u \in Users |-> FALSE]
    /\ isConnecting = [u \in Users |-> FALSE]
    /\ isMuted = [u \in Users |-> FALSE]
    /\ error = [u \in Users |-> ""]
    /\ localStream = [u \in Users |-> 0]
    /\ peers = [u \in Users |-> NoPeers]
    /\ view = [u \in Users |-> [isInCall |-> FALSE, isConnecting |-> FALSE,
                                localStream |-> 0, peers |-> NoPeers]]
    /\ conns = [u \in Users |-> <<>>]
    /\ retryTimers = [u \in Users |-> {}]
    /\ remoteAudios = [u \in Users |-> {}]
    /\ audioElements = [u \in Users |-> NoElements]
    /\ media = [u \in Users |-> [pending |-> 0, acquired |-> 0, live |-> {},
                                 enabled |-> TRUE, restartIce |-> restartIce]]
    /\ inbox = [u \in Users |-> <<>>]
    /\ sent = {}
    /\ hist = [u \in Users |-> [left |-> FALSE, echo |-> 0, found |-> {},
                                leaves |-> 0, idle |-> 0, refused |-> FALSE,
                                toggled |-> FALSE, announced |-> 0,
                                resubs |-> 0, leftAt |-> 0, gone |-> {},
                                stray |-> FALSE]]

\* a runtime whose RTCPeerConnection has restartIce, as current browsers do
Fresh == FreshWith(TRUE)

\* One hook is mounted; the rest of the room is outside the model
Init ==
    /\ Fresh
    /\ mounted \in {{"a"}, {"b"}}
    /\ fuel = MaxForeign
    /\ ice = 0
    /\ faults = MaxFaults
    /\ joins = [u \in Users |-> MaxJoins]
    /\ budget = NoBudget

\* The same, with candidates among the outside messages
InitIce ==
    /\ Fresh
    /\ mounted \in {{"a"}, {"b"}}
    /\ fuel = IceForeign
    /\ ice = MaxCand
    /\ faults = 0
    /\ joins = [u \in Users |-> MaxJoins]
    /\ budget = NoBudget

\* handleSignalingMessage is recreated when one of its handlers is, and
\* handlePeerJoin, handleOffer, handleAnswer and handleIceCandidate depend on
\* `peers`, handlePeerJoin also on `localStream`
HandlerChanged(u) ==
    view[u].peers # peers[u] \/ view[u].localStream # localStream[u]

\* A re-render: the callbacks are recreated over the current state.  The
\* channel effect depends on handleSignalingMessage: when that changed, its
\* cleanup unsubscribes the channel and the effect subscribes a new one
Render(u) ==
    /\ u \in mounted
    /\ ~Rendered(u)
    /\ view' = [view EXCEPT ![u] = ViewOf(u)]
    /\ hist' = IF HandlerChanged(u)
               THEN [hist EXCEPT ![u].resubs = 1]
               ELSE hist
    /\ UNCHANGED <<mounted, reactVars, peers, conns, retryTimers,
                   remoteAudios, audioElements, media, inbox, sent, joins, fuel, ice, faults,
                   budget>>

\* Both hooks are mounted (both pages open, both subscribed to the room
\* channel) and nothing comes from outside
InitPair ==
    /\ Fresh
    /\ mounted = Users
    /\ fuel = 0
    /\ ice = 0
    /\ faults = 0
    /\ joins = [u \in Users |-> MaxJoins]
    /\ budget = NoBudget

\* ------------------------------------------------------- handlePeerLeave
\* a teardown that drops every entry of the Map
NoPeersLeft(u, p) == NoPeers

\* a teardown that leaves the entry in the Map
PeersKept(u, p) == peers[u]

\* setPeers(prev => { peer.connection.close(); updated.delete(peerId) }):
\* a functional update, so it acts on the current state, not on the view
PeersAfterLeave(u, p) == [peers[u] EXCEPT ![p] = 0]

ConnsAfterLeave(cs, u, p) ==
    IF peers[u][p] # 0
    THEN [cs EXCEPT ![peers[u][p]].closed = TRUE, ![peers[u][p]].cs = "closed"]
    ELSE cs

AudiosAfterLeave(u, p) == remoteAudios[u] \ {p}

\* `if (audioElement) { audioElement.srcObject = null;
\* parentNode.removeChild(audioElement); remoteAudiosRef.current.delete }`
ElementsAfterLeave(u, p) ==
    IF p \in remoteAudios[u]
    THEN [audioElements[u] EXCEPT !.srcObject[p] = 0, !.inBody[p] = @ - 1]
    ELSE audioElements[u]

handlePeerLeave(u, p) ==
    /\ peers' = [peers EXCEPT ![u] = PeersAfterLeave(u, p)]
    /\ conns' = [conns EXCEPT ![u] = ConnsAfterLeave(@, u, p)]
    /\ remoteAudios' = [remoteAudios EXCEPT ![u] = AudiosAfterLeave(u, p)]
    /\ audioElements' = [audioElements EXCEPT ![u] = ElementsAfterLeave(u, p)]
    /\ audioElements' =
         [audioElements EXCEPT ![u] = ElementsAfterLeave(u, p)]

\* ------------------------------------------------ handlePeerJoin, handleOffer
\* `if (peers.has(peerId)) return`: peers is the Map the callback captured
HasSession(u, p) == view[u].peers[p] # 0

\* the offer branch taken whatever the role and the stream
OfferAnyRole(u) == TRUE

\* `if (isAnchor && localStream)`: localStream as captured by the callback
ShouldOffer(u) == isAnchor(u) /\ view[u].localStream # 0

\* createPeerConnection + setPeers(prev => new Map(prev).set(peerId, newPeer))
AddSession(u, p, via, task, retry) ==
    /\ Len(conns[u]) < MaxConns
    /\ conns' = [conns EXCEPT ![u] = Append(@, NewConn(u, p, via, task, retry))]
    /\ peers' = [peers EXCEPT ![u][p] = Len(conns[u]) + 1]
    /\ UNCHANGED <<remoteAudios, audioElements>>

Ignored == UNCHANGED <<peers, conns, remoteAudios, audioElements>>

handlePeerJoin(u, p, via, retryCount) ==
    IF HasSession(u, p)
    THEN Ignored
    ELSE AddSession(u, p, via,
                    IF ShouldOffer(u) THEN "createOffer" ELSE "none", retryCount)

handleOffer(u, p, via) ==
    IF HasSession(u, p)
    THEN Ignored
    ELSE AddSession(u, p, via, "setRemote", 0)

\* ------------------------------------------------------------ handleAnswer
\* peers.get(peerId) of the captured Map; then
\* `await peer.connection.setRemoteDescription(answer)` is pending
handleAnswer(u, p) ==
    IF ~HasSession(u, p)
    THEN Ignored
    ELSE /\ conns' = [conns EXCEPT ![u][view[u].peers[p]].ans = @ + 1]
         /\ UNCHANGED <<peers, remoteAudios, audioElements>>

\* -------------------------------------------------------- handleIceCandidate
\* `if (peer.connection.remoteDescription)`
RemoteDescriptionSet(c) == c.remote

\* connection.addIceCandidate(candidate): rejects on a closed connection,
\* and the rejection is caught and logged
AddIceCandidate(c, n) ==
    IF c.closed THEN c ELSE [c EXCEPT !.applied = Append(@, n)]

\* candidates are numbered by their arrival at the session
IceArrival(c) ==
    LET n == c.arrived + 1
        d == [c EXCEPT !.arrived = n]
    IN  IF RemoteDescriptionSet(c)
        THEN AddIceCandidate(d, n)
        ELSE [d EXCEPT !.queue = Append(@, n), !.queued = @ + 1]

handleIceCandidate(u, p) ==
    IF ~HasSession(u, p)
    THEN Ignored
    ELSE /\ conns' = [conns EXCEPT ![u][view[u].peers[p]] = IceArrival(@)]
         /\ UNCHANGED <<peers, remoteAudios, audioElements>>

\* ---------------------------------------------------- handleSignalingMessage
\* the own-message test left out
OwnMessageUnchecked(u, m) == FALSE

\* `if (message.from === userId) return`
IsOwnMessage(u, m) == m.from = u

\* The switch on message.type.  message.to is not read.
handleSignalingMessage(u, m) ==
    IF IsOwnMessage(u, m)
    THEN Ignored
    ELSE CASE m.type = "join" -> handlePeerJoin(u, m.from, m.to, 0)
           [] m.type = "offer" -> handleOffer(u, m.from, m.to)
           [] m.type = "answer" -> handleAnswer(u, m.from)
           [] m.type = "ice-candidate" -> handleIceCandidate(u, m.from)
           [] m.type = "leave" -> handlePeerLeave(u, m.from)

\* history: the peers that announced their leaving and have not been heard
\* of since, after message m is handled
GoneAfter(u, m) ==
    IF IsOwnMessage(u, m) THEN hist[u].gone
    ELSE CASE m.type \in {"join", "offer"} -> hist[u].gone \ {m.from}
           [] m.type = "leave" -> hist[u].gone \cup {m.from}
           [] OTHER -> hist[u].gone

\* an Answer or a candidate of a peer that has no entry in the Map
FromUnknownPeer(u, m) ==
    /\ ~IsOwnMessage(u, m)
    /\ m.type \in {"answer", "ice-candidate"}
    /\ peers[u][m.from] = 0

Noted(u, m) ==
    hist' = [hist EXCEPT ![u].gone = GoneAfter(u, m),
                         ![u].stray = IF FromUnknownPeer(u, m) THEN ~@ ELSE @]

\* A message published by another mounted hook reaches this one
Deliver(u) ==
    /\ u \in mounted
    /\ inbox[u] # <<>>
    /\ handleSignalingMessage(u, Head(inbox[u]))
    /\ Noted(u, Head(inbox[u]))
    /\ inbox' = [inbox EXCEPT ![u] = Tail(@)]
    /\ UNCHANGED <<mounted, reactVars, view, retryTimers, media, sent, joins,
                   fuel, ice, faults, budget>>

\* What the rest of the room can publish: join and leave are broadcasts,
\* offer, answer and candidates name their target
OutsiderMsgs(u) ==
    {Msg(t, Outsider, All) : t \in {"join", "leave"}}
    \cup {Msg(t, Outsider, u) : t \in {"offer", "answer"}}
    \cup {Msg("offer", Outsider, v) : v \in Users \ {u}}

\* A message from a participant outside the model reaches this hook
Foreign(u) ==
    /\ u \in mounted
    /\ fuel > 0
    /\ \E m \in OutsiderMsgs(u) : handleSignalingMessage(u, m) /\ Noted(u, m)
    /\ fuel' = fuel - 1
    /\ UNCHANGED <<mounted, reactVars, view, retryTimers, media, inbox, sent,
                   joins, ice, faults, budget>>

\* What the second outside participant publishes
BystanderMsgs(u) ==
    {Msg(t, Bystander, All) : t \in {"join", "leave"}}
    \cup {Msg("offer", Bystander, u)}

\* A message of the second outside participant reaches this hook
ForeignOther(u) ==
    /\ u \in mounted
    /\ budget.others > 0
    /\ \E m \in BystanderMsgs(u) : handleSignalingMessage(u, m) /\ Noted(u, m)
    /\ budget' = [budget EXCEPT !.others = @ - 1]
    /\ UNCHANGED <<mounted, reactVars, view, retryTimers, media, inbox, sent,
                   joins, fuel, ice, faults>>

\* A candidate of a participant outside the model reaches this hook
ForeignIce(u) ==
    /\ u \in mounted
    /\ ice > 0
    /\ handleSignalingMessage(u, Msg("ice-candidate", Outsider, u))
    /\ Noted(u, Msg("ice-candidate", Outsider, u))
    /\ ice' = ice - 1
    /\ UNCHANGED <<mounted, reactVars, view, retryTimers, media, inbox, sent,
                   joins, fuel, faults, budget>>

\* The hook's own broadcast comes back to it (the same user in a second
\* tab, or a channel that echoes)
Echo(u) ==
    /\ u \in mounted
    /\ hist[u].echo = 0
    /\ \E t \in {"join", "offer", "answer", "ice-candidate", "leave"} :
          handleSignalingMessage(u, Msg(t, u, IF t \in {"join", "leave"}
                                              THEN All ELSE Outsider))
    /\ hist' = [hist EXCEPT ![u].echo = 1]
    /\ UNCHANGED <<mounted, reactVars, view, retryTimers, media, inbox, sent,
                   joins, fuel, ice, faults, budget>>

\* ------------------------------------------------------ sendSignalingMessage
Publish(u, t, to) ==
    /\ inbox' = Broadcast(inbox, Msg(t, u, to))
    /\ sent' = sent \cup {Msg(t, u, to)}

Silent == UNCHANGED <<inbox, sent>>

SetConn(u, i, c) == conns' = [conns EXCEPT ![u][i] = c]

stepFrame == <<mounted, reactVars, view, media, joins, fuel, ice, budget, hist>>

\* the transport rejects a call on an open connection
Fault == faults > 0 /\ faults' = faults - 1

\* ------------------------------------------- handlePeerJoin after its awaits
\* a test that lets a fourth attempt through
RetryOnceMore(retryCount) == retryCount < 3

\* `if (retryCount < 2)`
MayRetry(retryCount) == retryCount < 2

\* catch (err): `if (retryCount < 2)` handlePeerLeave and a timer that calls
\* handlePeerJoin(peerId, retryCount + 1); else handlePeerLeave alone
OfferCatch(u, i) ==
    LET c == conns[u][i] IN
    /\ conns' = [conns EXCEPT ![u] =
                    ConnsAfterLeave([conns[u] EXCEPT ![i].task = "failed"],
                                    u, c.peer)]
    /\ peers' = [peers EXCEPT ![u] = PeersAfterLeave(u, c.peer)]
    /\ remoteAudios' = [remoteAudios EXCEPT ![u] = AudiosAfterLeave(u, c.peer)]
    /\ audioElements' =
         [audioElements EXCEPT ![u] = ElementsAfterLeave(u, c.peer)]
    /\ retryTimers' = IF MayRetry(c.retry)
                      THEN [retryTimers EXCEPT ![u] = @ \cup
                              {[peer |-> c.peer, retry |-> c.retry + 1, by |-> i]}]
                      ELSE retryTimers
    /\ Silent

\* createOffer rejects on an open connection (an offer-creation error)
CreateOfferFails(u, i) ==
    /\ Settled(u) /\ i \in DOMAIN conns[u]
    /\ conns[u][i].task = "createOffer"
    /\ ~conns[u][i].closed
    /\ Fault
    /\ OfferCatch(u, i)
    /\ UNCHANGED stepFrame

\* `await connection.createOffer(...)` and `await
\* connection.setLocalDescription(offer)` settle (both reject on a closed
\* connection); then either the gathering wait starts or the offer is sent
\* at once
SetLocalOfferDone(u, i) ==
    LET c == conns[u][i]
        d == [c EXCEPT !.local = TRUE, !.sig = "have-local-offer"]
    IN
    /\ Settled(u) /\ i \in DOMAIN conns[u]
    /\ c.task = "createOffer"
    /\ IF c.closed
       THEN OfferCatch(u, i)
       ELSE /\ UNCHANGED <<peers, remoteAudios, audioElements, retryTimers>>
            /\ \E gathering \in BOOLEAN :
                 IF gathering
                 THEN /\ SetConn(u, i, [d EXCEPT !.task = "gatherOffer",
                                                 !.waited = TRUE])
                      /\ Silent
                 ELSE /\ SetConn(u, i, [d EXCEPT !.task = "done", !.posted = @ + 1])
                      /\ Publish(u, "offer", c.peer)
    /\ UNCHANGED <<stepFrame, faults>>

\* checkGathering has found iceGatheringState 'complete'
GatheringComplete(c) == c.gathered = MaxGather

\* a wait without its timer: it resolves when gathering completes, only
ResolvesOnComplete(c) == GatheringComplete(c)

\* the promise of the gathering wait resolves when checkGathering finds
\* 'complete' or when setTimeout(() => resolve(void 0), 3000) fires, whichever
\* is first: the timer needs nothing of the connection
WaitResolves(c) == TRUE

\* gathering completes or the 3 s timeout fires: the offer is sent
GatherOfferDone(u, i) ==
    /\ Settled(u) /\ i \in DOMAIN conns[u]
    /\ conns[u][i].task = "gatherOffer"
    /\ WaitResolves(conns[u][i])
    /\ SetConn(u, i, [conns[u][i] EXCEPT !.task = "done", !.posted = @ + 1])
    /\ Publish(u, "offer", conns[u][i].peer)
    /\ UNCHANGED <<peers, remoteAudios, audioElements, retryTimers>>
    /\ UNCHANGED <<stepFrame, faults>>

\* the retry timer fires: handlePeerJoin(peerId, retryCount + 1) of the
\* callback that scheduled it, whose captured Map has no peerId and whose
\* captured localStream is set
RetryFire(u) ==
    /\ Settled(u)
    /\ Len(conns[u]) < MaxConns
    /\ \E t \in retryTimers[u] :
         /\ retryTimers' = [retryTimers EXCEPT ![u] = @ \ {t}]
         /\ conns' = [conns EXCEPT ![u] = Append(@,
               [NewConn(u, t.peer, "timer", "createOffer", t.retry)
                  EXCEPT !.tracks = TRUE])]
         /\ peers' = [peers EXCEPT ![u][t.peer] = Len(conns[u]) + 1]
    /\ UNCHANGED <<remoteAudios, audioElements>>
    /\ Silent
    /\ UNCHANGED <<stepFrame, faults>>

\* ---------------------------------------------- handleOffer after its awaits
\* catch (err): handlePeerLeave(peerId)
AnswerCatch(u, i) ==
    LET c == conns[u][i] IN
    /\ conns' = [conns EXCEPT ![u] =
                    ConnsAfterLeave([conns[u] EXCEPT ![i].task = "failed"],
                                    u, c.peer)]
    /\ peers' = [peers EXCEPT ![u] = PeersAfterLeave(u, c.peer)]
    /\ remoteAudios' = [remoteAudios EXCEPT ![u] = AudiosAfterLeave(u, c.peer)]
    /\ audioElements' =
         [audioElements EXCEPT ![u] = ElementsAfterLeave(u, c.peer)]
    /\ UNCHANGED retryTimers
    /\ Silent

\* a queue read at its head without removing it
ShiftNothing(q) == q

\* iceCandidatesQueue.shift()
Shift(q) == Tail(q)

\* one turn of `while (queue.length > 0) { shift(); await addIceCandidate }`
DrainOne(c) == AddIceCandidate([c EXCEPT !.queue = Shift(@)], Head(c.queue))

\* a loop that is never entered
LoopSkipped(c) == FALSE

\* `while (newPeer.iceCandidatesQueue.length > 0)`
QueueNotEmpty(c) == c.queue # <<>>

\* `await connection.setRemoteDescription(offer)` settles; the drain loop
\* starts in the same turn
SetRemoteOfferDone(u, i) ==
    LET c == conns[u][i]
        d == [c EXCEPT !.remote = TRUE, !.sig = "have-remote-offer"]
    IN
    /\ Settled(u) /\ i \in DOMAIN conns[u]
    /\ c.task = "setRemote"
    /\ IF c.closed
       THEN AnswerCatch(u, i)
       ELSE /\ SetConn(u, i, IF QueueNotEmpty(d)
                             THEN [DrainOne(d) EXCEPT !.task = "drain"]
                             ELSE [d EXCEPT !.task = "createAnswer"])
            /\ UNCHANGED <<peers, remoteAudios, audioElements, retryTimers>>
            /\ Silent
    /\ UNCHANGED <<stepFrame, faults>>

\* setRemoteDescription(offer) rejects (a description the transport refuses)
SetRemoteOfferFails(u, i) ==
    /\ Settled(u) /\ i \in DOMAIN conns[u]
    /\ conns[u][i].task = "setRemote"
    /\ ~conns[u][i].closed
    /\ Fault
    /\ AnswerCatch(u, i)
    /\ UNCHANGED stepFrame

\* `await connection.addIceCandidate(candidate)` of the drain loop settles
DrainStep(u, i) ==
    LET c == conns[u][i] IN
    /\ Settled(u) /\ i \in DOMAIN conns[u]
    /\ c.task = "drain"
    /\ SetConn(u, i, IF QueueNotEmpty(c)
                     THEN DrainOne(c)
                     ELSE [c EXCEPT !.task = "createAnswer"])
    /\ UNCHANGED <<peers, remoteAudios, audioElements, retryTimers>>
    /\ Silent
    /\ UNCHANGED <<stepFrame, faults>>

\* `await connection.createAnswer(...)` and `await
\* connection.setLocalDescription(answer)` settle
SetLocalAnswerDone(u, i) ==
    LET c == conns[u][i]
        d == [c EXCEPT !.local = TRUE, !.sig = "stable"]
    IN
    /\ Settled(u) /\ i \in DOMAIN conns[u]
    /\ c.task = "createAnswer"
    /\ IF c.closed
       THEN AnswerCatch(u, i)
       ELSE /\ UNCHANGED <<peers, remoteAudios, audioElements, retryTimers>>
            /\ \E gathering \in BOOLEAN :
                 IF gathering
                 THEN /\ SetConn(u, i, [d EXCEPT !.task = "gatherAnswer",
                                                 !.waited = TRUE])
                      /\ Silent
                 ELSE /\ SetConn(u, i, [d EXCEPT !.task = "done", !.posted = @ + 1])
                      /\ Publish(u, "answer", c.peer)
    /\ UNCHANGED <<stepFrame, faults>>

GatherAnswerDone(u, i) ==
    /\ Settled(u) /\ i \in DOMAIN conns[u]
    /\ conns[u][i].task = "gatherAnswer"
    /\ WaitResolves(conns[u][i])
    /\ SetConn(u, i, [conns[u][i] EXCEPT !.task = "done", !.posted = @ + 1])
    /\ Publish(u, "answer", conns[u][i].peer)
    /\ UNCHANGED <<peers, remoteAudios, audioElements, retryTimers>>
    /\ UNCHANGED <<stepFrame, faults>>

\* --------------------------------------------- handleAnswer after its awaits
\* `await peer.connection.setRemoteDescription(answer)` settles: it applies
\* only in have-local-offer on an open connection, and rejects otherwise;
\* catch (err): handlePeerLeave(peerId)
AnswerApplied(u, i) ==
    LET c == conns[u][i]
        d == [c EXCEPT !.ans = @ - 1, !.remote = TRUE, !.sig = "stable"]
    IN
    /\ Settled(u) /\ i \in DOMAIN conns[u]
    /\ c.ans > 0
    /\ IF ~c.closed /\ c.sig = "have-local-offer"
       THEN /\ SetConn(u, i, IF d.queue # <<>>
                             THEN [DrainOne(d) EXCEPT !.ansDrain = TRUE]
                             ELSE d)
            /\ UNCHANGED <<peers, remoteAudios, audioElements>>
       ELSE /\ conns' = [conns EXCEPT ![u] =
                    ConnsAfterLeave([conns[u] EXCEPT ![i].ans = @ - 1],
                                    u, c.peer)]
            /\ peers' = [peers EXCEPT ![u] = PeersAfterLeave(u, c.peer)]
            /\ remoteAudios' =
                 [remoteAudios EXCEPT ![u] = AudiosAfterLeave(u, c.peer)]
            /\ audioElements' =
                 [audioElements EXCEPT ![u] = ElementsAfterLeave(u, c.peer)]
    /\ UNCHANGED retryTimers
    /\ Silent
    /\ UNCHANGED <<stepFrame, faults>>

AnswerDrainStep(u, i) ==
    LET c == conns[u][i] IN
    /\ Settled(u) /\ i \in DOMAIN conns[u]
    /\ c.ansDrain
    /\ SetConn(u, i, IF c.queue # <<>>
                     THEN DrainOne(c)
                     ELSE [c EXCEPT !.ansDrain = FALSE])
    /\ UNCHANGED <<peers, remoteAudios, audioElements, retryTimers>>
    /\ Silent
    /\ UNCHANGED <<stepFrame, faults>>

\* ------------------------------------------------------------------ joinCall
\* joinCall without its test
JoinUnguarded(u) == TRUE

\* `if (isInCall || isConnecting) return`, both as captured by the callback
JoinGuard(u) == ~view[u].isInCall /\ ~view[u].isConnecting

\* joinCall up to its first await: an anchor awaits getUserMedia, an
\* audience member has no await and joins in the same turn
joinCall(u) ==
    /\ Settled(u)
    /\ IF JoinGuard(u)
       THEN /\ joins[u] > 0
            /\ joins' = [joins EXCEPT ![u] = @ - 1]
            /\ error' = [error EXCEPT ![u] = ""]
            /\ IF isAnchor(u)
               THEN /\ isConnecting' = [isConnecting EXCEPT ![u] = TRUE]
                    /\ media' = [media EXCEPT ![u].pending = @ + 1]
                    /\ hist' = [hist EXCEPT ![u].left = FALSE,
                                   ![u].found = {v \in Users \ {u} : isInCall[v]}]
                    /\ UNCHANGED isInCall
                    /\ Silent
               ELSE /\ isInCall' = [isInCall EXCEPT ![u] = TRUE]
                    /\ isConnecting' = [isConnecting EXCEPT ![u] = FALSE]
                    /\ hist' = [hist EXCEPT ![u].left = FALSE,
                                   ![u].found = {v \in Users \ {u} : isInCall[v]},
                                   ![u].announced = @ + 1]
                    /\ UNCHANGED media
                    /\ Publish(u, "join", All)
            /\ UNCHANGED budget
       ELSE \* the early return
            /\ budget.calls > 0
            /\ budget' = [budget EXCEPT !.calls = @ - 1]
            /\ hist' = [hist EXCEPT ![u].refused = TRUE]
            /\ Silent
            /\ UNCHANGED <<joins, error, isInCall, isConnecting, media>>
    /\ UNCHANGED <<mounted, isMuted, localStream, peers, view, conns,
                   retryTimers, remoteAudios, audioElements, fuel, ice, faults>>

\* getUserMedia resolves: setLocalStream(stream), setIsInCall(true), the
\* join broadcast, and finally setIsConnecting(false)
GetUserMediaOk(u) ==
    LET id == media[u].acquired + 1 IN
    /\ Settled(u)
    /\ media[u].pending > 0
    /\ media' = [media EXCEPT ![u] = [pending |-> @.pending - 1,
                                      acquired |-> id,
                                      live |-> @.live \cup {id},
                                      enabled |-> TRUE,
                                      restartIce |-> @.restartIce]]
    /\ hist' = [hist EXCEPT ![u].announced = @ + 1]
    /\ localStream' = [localStream EXCEPT ![u] = id]
    /\ isInCall' = [isInCall EXCEPT ![u] = TRUE]
    /\ isConnecting' = [isConnecting EXCEPT ![u] = FALSE]
    /\ Publish(u, "join", All)
    /\ UNCHANGED <<mounted, isMuted, error, peers, view, conns, retryTimers,
                   remoteAudios, audioElements, joins, fuel, ice, faults, budget>>

\* an error that is swallowed
NoError == ""

\* setError('Failed to access microphone. Please check your permissions.')
MicError == "Failed to access microphone. Please check your permissions."

\* getUserMedia rejects: catch sets the error, finally clears isConnecting
GetUserMediaFails(u) ==
    /\ Settled(u)
    /\ media[u].pending > 0
    /\ media' = [media EXCEPT ![u].pending = @ - 1]
    /\ error' = [error EXCEPT ![u] = MicError]
    /\ isConnecting' = [isConnecting EXCEPT ![u] = FALSE]
    /\ Silent
    /\ UNCHANGED <<mounted, isInCall, isMuted, localStream, peers, view, conns,
                   retryTimers, remoteAudios, audioElements, joins, fuel, ice, faults, budget, hist>>

\* ----------------------------------------------------------------- leaveCall
\* peers.forEach(peer => peer.connection.close()) over the captured Map
ClosedByLeave(u) == {view[u].peers[p] : p \in Ids} \ {0}

\* leaveCall without its test
LeaveUnguarded(u) == TRUE

\* `if (!isInCall) return`, isInCall as captured by the callback
LeaveGuard(u) == view[u].isInCall

leaveCall(u) ==
    /\ Settled(u)
    /\ IF LeaveGuard(u)
       THEN /\ Publish(u, "leave", All)
            /\ conns' = [conns EXCEPT ![u] =
                   [i \in DOMAIN conns[u] |->
                      IF i \in ClosedByLeave(u)
                      THEN [conns[u][i] EXCEPT !.closed = TRUE, !.cs = "closed"]
                      ELSE conns[u][i]]]
            /\ peers' = [peers EXCEPT ![u] = NoPeers]
            /\ media' = [media EXCEPT ![u].live = @ \ {view[u].localStream}]
            /\ localStream' = [localStream EXCEPT ![u] =
                                  IF view[u].localStream # 0 THEN 0 ELSE @]
            /\ remoteAudios' = [remoteAudios EXCEPT ![u] = {}]
            /\ audioElements' = [audioElements EXCEPT ![u] =
                  [inBody |-> [p \in Ids |->
                                 IF p \in remoteAudios[u]
                                 THEN @.inBody[p] - 1 ELSE @.inBody[p]],
                   srcObject |-> [p \in Ids |-> 0]]]
            /\ isInCall' = [isInCall EXCEPT ![u] = FALSE]
            /\ isMuted' = [isMuted EXCEPT ![u] = FALSE]
            /\ hist' = [hist EXCEPT ![u].left = TRUE, ![u].leaves = @ + 1,
                                    ![u].announced = 0,
                                    ![u].leftAt = Len(conns[u])]
            /\ UNCHANGED budget
       ELSE \* the early return
            /\ budget.calls > 0
            /\ budget' = [budget EXCEPT !.calls = @ - 1]
            /\ hist' = [hist EXCEPT ![u].leaves = @ + 1,
                                    ![u].idle = IF hist[u].left THEN 2 ELSE 1]
            /\ Silent
            /\ UNCHANGED <<conns, peers, media, localStream, remoteAudios, audioElements,
                           isInCall, isMuted>>
    /\ UNCHANGED <<mounted, isConnecting, error, view, retryTimers, joins,
                   fuel, ice, faults>>

\* ----------------------------------------------------------------- toggleMute
\* `if (!localStream || !isAnchor) return`
MuteGuard(u) == view[u].localStream # 0 /\ isAnchor(u)

\* a mute that renegotiates: an offer to every peer of the Map
MuteRenegotiates(u) == {Msg("offer", u, p) : p \in {q \in Ids : peers[u][q] # 0}}

\* what toggleMute publishes on the channel: nothing
MutePublishes(u) == {}

\* audioTrack.enabled = !audioTrack.enabled; setIsMuted(!audioTrack.enabled)
toggleMute(u) ==
    /\ Settled(u)
    /\ budget.calls > 0
    /\ budget' = [budget EXCEPT !.calls = @ - 1]
    /\ hist' = [hist EXCEPT ![u].toggled = ~@]
    /\ IF MuteGuard(u)
       THEN /\ media' = [media EXCEPT ![u].enabled = ~@]
            /\ isMuted' = [isMuted EXCEPT ![u] = media[u].enabled]
       ELSE UNCHANGED <<media, isMuted>>
    /\ sent' = sent \cup MutePublishes(u)
    /\ UNCHANGED <<mounted, isInCall, isConnecting, error, localStream, peers,
                   view, conns, retryTimers, remoteAudios, audioElements, inbox, joins, fuel,
                   ice, faults>>

\* ------------------------------------------------------------------- unmount
\* the cleanup effect has no dependencies, so it calls the leaveCall of the
\* first render, which captured isInCall = false
UnmountLeaveGuard == FALSE

\* The page closes: the channel effect's cleanup unsubscribes, and the
\* unmount cleanup calls leaveCall
Unmount(u) ==
    /\ Settled(u)
    /\ mounted' = mounted \ {u}
    /\ ~UnmountLeaveGuard
    /\ UNCHANGED <<reactVars, peers, view, conns, retryTimers, remoteAudios, audioElements,
                   media, inbox, sent, joins, fuel, ice, faults, budget, hist>>

\* ----------------------------------------------------- the media transport
\* connection.onicecandidate: a gathered candidate is published to the peer
IceCandidateGathered(u, i) ==
    /\ Settled(u) /\ i \in DOMAIN conns[u]
    /\ conns[u][i].local /\ ~conns[u][i].closed
    /\ conns[u][i].gathered < MaxGather
    /\ SetConn(u, i, [conns[u][i] EXCEPT !.gathered = @ + 1])
    /\ Publish(u, "ice-candidate", conns[u][i].peer)
    /\ UNCHANGED <<peers, remoteAudios, audioElements, retryTimers>>
    /\ UNCHANGED <<stepFrame, faults>>

Negotiated(c) == c.local /\ c.remote /\ ~c.closed

\* connectionState becomes 'connected': both descriptions are applied here
\* and, when the peer's hook is modelled, on a connection of the peer too
TransportConnected(u, i) ==
    LET c == conns[u][i] IN
    /\ Settled(u) /\ i \in DOMAIN conns[u]
    /\ Negotiated(c)
    /\ c.cs = "new"
    /\ c.peer \in mounted =>
         \E j \in DOMAIN conns[c.peer] :
            conns[c.peer][j].peer = u /\ Negotiated(conns[c.peer][j])
    /\ SetConn(u, i, [c EXCEPT !.cs = "connected"])
    /\ UNCHANGED <<peers, remoteAudios, audioElements, retryTimers>>
    /\ Silent
    /\ UNCHANGED <<stepFrame, faults>>

\* connectionState becomes 'disconnected': the handler arms the timer
\* setTimeout(() => { if (still disconnected) handlePeerLeave(peerId) }, 5000)
TransportDisconnected(u, i) ==
    LET c == conns[u][i] IN
    /\ Settled(u) /\ i \in DOMAIN conns[u]
    /\ c.cs = "connected" /\ ~c.closed
    /\ budget.blips > 0
    /\ budget' = [budget EXCEPT !.blips = @ - 1]
    /\ SetConn(u, i, [c EXCEPT !.cs = "disconnected", !.grace = @ + 1])
    /\ UNCHANGED <<peers, remoteAudios, audioElements, retryTimers>>
    /\ Silent
    /\ UNCHANGED <<mounted, reactVars, view, media, joins, fuel, ice, faults,
                   hist>>

\* connectionState becomes 'connected' again: the handler only logs
TransportRecovered(u, i) ==
    LET c == conns[u][i] IN
    /\ Settled(u) /\ i \in DOMAIN conns[u]
    /\ c.cs = "disconnected" /\ ~c.closed
    /\ SetConn(u, i, [c EXCEPT !.cs = "connected"])
    /\ UNCHANGED <<peers, remoteAudios, audioElements, retryTimers>>
    /\ Silent
    /\ UNCHANGED <<stepFrame, faults>>

\* `if (connection.connectionState === 'disconnected')`, in the timer
StillDisconnected(c) == c.cs = "disconnected"

\* the 5000 ms timer fires: handlePeerLeave(peerId) if the connection that
\* armed it is still disconnected
GraceExpires(u, i) ==
    LET c == conns[u][i] IN
    /\ Settled(u) /\ i \in DOMAIN conns[u]
    /\ c.grace > 0
    /\ IF StillDisconnected(c)
       THEN /\ conns' = [conns EXCEPT ![u] =
                    ConnsAfterLeave([conns[u] EXCEPT ![i].grace = @ - 1,
                                                     ![i].expired = TRUE],
                                    u, c.peer)]
            /\ peers' = [peers EXCEPT ![u] = PeersAfterLeave(u, c.peer)]
            /\ remoteAudios' =
                 [remoteAudios EXCEPT ![u] = AudiosAfterLeave(u, c.peer)]
            /\ audioElements' =
                 [audioElements EXCEPT ![u] = ElementsAfterLeave(u, c.peer)]
       ELSE /\ SetConn(u, i, [c EXCEPT !.grace = @ - 1])
            /\ UNCHANGED <<peers, remoteAudios, audioElements>>
    /\ UNCHANGED retryTimers
    /\ Silent
    /\ UNCHANGED <<stepFrame, faults>>

\* `if (connection.restartIce)`
RestartIceSupported(u) == media[u].restartIce

\* connectionState becomes 'failed': restartIce() if the connection has the
\* method, else handlePeerLeave(peerId).  restartIce() marks the connection
\* for the next offer and fires negotiationneeded, for which the hook has no
\* handler
TransportFailed(u, i) ==
    LET c == conns[u][i] IN
    /\ Settled(u) /\ i \in DOMAIN conns[u]
    /\ Negotiated(c)
    /\ c.cs \in {"new", "connected", "disconnected"}
    /\ budget.breaks > 0
    /\ budget' = [budget EXCEPT !.breaks = @ - 1]
    /\ IF RestartIceSupported(u)
       THEN /\ SetConn(u, i, [c EXCEPT !.cs = "failed", !.restarts = @ + 1])
            /\ UNCHANGED <<peers, remoteAudios, audioElements>>
       ELSE /\ conns' = [conns EXCEPT ![u] =
                    ConnsAfterLeave([conns[u] EXCEPT ![i].cs = "failed"],
                                    u, c.peer)]
            /\ peers' = [peers EXCEPT ![u] = PeersAfterLeave(u, c.peer)]
            /\ remoteAudios' =
                 [remoteAudios EXCEPT ![u] = AudiosAfterLeave(u, c.peer)]
            /\ audioElements' =
                 [audioElements EXCEPT ![u] = ElementsAfterLeave(u, c.peer)]
    /\ UNCHANGED retryTimers
    /\ Silent
    /\ UNCHANGED <<mounted, reactVars, view, media, joins, fuel, ice, faults,
                   hist>>

\* an element made for every track event
AlwaysCreate(u, p) == TRUE

\* `let audioElement = remoteAudiosRef.current.get(peerId); if (!audioElement)`
NoAudioElement(u, p) == p \notin remoteAudios[u]

\* connection.ontrack, fired once the remote description with the peer's
\* audio track is applied: the audio element of the peer is looked up in
\* remoteAudiosRef, created and appended to document.body if there is none,
\* and its srcObject is set to the stream of this connection
OnTrack(u, i) ==
    LET p == conns[u][i].peer IN
    /\ Settled(u) /\ i \in DOMAIN conns[u]
    /\ conns[u][i].remote /\ ~conns[u][i].closed
    /\ ~conns[u][i].heard
    /\ SetConn(u, i, [conns[u][i] EXCEPT !.heard = TRUE])
    /\ remoteAudios' = [remoteAudios EXCEPT ![u] = @ \cup {p}]
    /\ audioElements' = [audioElements EXCEPT
          ![u].inBody[p] = IF NoAudioElement(u, p) THEN @ + 1 ELSE @,
          ![u].srcObject[p] = i]
    /\ UNCHANGED <<peers, retryTimers>>
    /\ Silent
    /\ UNCHANGED <<stepFrame, faults>>

\* ------------------------------------------------------------ specifications
Slots == 1 .. MaxConns

\* One hook with the rest of the room outside the model
Next ==
    \E u \in Users :
       \/ Render(u)
       \/ joinCall(u)
       \/ GetUserMediaOk(u)
       \/ GetUserMediaFails(u)
       \/ leaveCall(u)
       \/ Foreign(u)
       \/ Echo(u)
       \/ RetryFire(u)
       \/ \E i \in Slots :
             \/ CreateOfferFails(u, i)
             \/ SetLocalOfferDone(u, i)
             \/ GatherOfferDone(u, i)
             \/ SetRemoteOfferDone(u, i)
             \/ SetRemoteOfferFails(u, i)
             \/ SetLocalAnswerDone(u, i)
             \/ GatherAnswerDone(u, i)
             \/ AnswerApplied(u, i)

Spec == Init /\ [][Next]_vars

\* One hook, with candidates arriving from outside
NextIce ==
    \E u \in Users :
       \/ Render(u)
       \/ joinCall(u)
       \/ GetUserMediaOk(u)
       \/ leaveCall(u)
       \/ Foreign(u)
       \/ ForeignIce(u)
       \/ \E i \in Slots :
             \/ SetLocalOfferDone(u, i)
             \/ GatherOfferDone(u, i)
             \/ SetRemoteOfferDone(u, i)
             \/ DrainStep(u, i)
             \/ SetLocalAnswerDone(u, i)
             \/ GatherAnswerDone(u, i)
             \/ AnswerApplied(u, i)
             \/ AnswerDrainStep(u, i)

SpecIce == InitIce /\ [][NextIce]_vars

\* The anchor and the audience member in one room: each joins once, nobody
\* leaves, no call of the transport fails
NextPair ==
    \E u \in Users :
       \/ Render(u)
       \/ joinCall(u)
       \/ GetUserMediaOk(u)
       \/ Deliver(u)
       \/ \E i \in Slots :
             \/ SetLocalOfferDone(u, i)
             \/ GatherOfferDone(u, i)
             \/ SetRemoteOfferDone(u, i)
             \/ DrainStep(u, i)
             \/ SetLocalAnswerDone(u, i)
             \/ GatherAnswerDone(u, i)
             \/ AnswerApplied(u, i)
             \/ AnswerDrainStep(u, i)
             \/ IceCandidateGathered(u, i)
             \/ TransportConnected(u, i)
             \/ OnTrack(u, i)

SpecPair == InitPair /\ [][NextPair]_vars

\* One hook and its user: join, leave, join again, mute, close the page
InitLife ==
    /\ Fresh
    /\ mounted \in {{"a"}, {"b"}}
    /\ fuel = LifeForeign
    /\ ice = 0
    /\ faults = 0
    /\ joins = [u \in Users |-> LifeJoins]
    /\ budget = [NoBudget EXCEPT !.calls = LifeCalls]

NextLife ==
    \E u \in Users :
       \/ Render(u)
       \/ joinCall(u)
       \/ GetUserMediaOk(u)
       \/ GetUserMediaFails(u)
       \/ leaveCall(u)
       \/ toggleMute(u)
       \/ Unmount(u)
       \/ Foreign(u)
       \/ \E i \in Slots :
             \/ SetLocalOfferDone(u, i)
             \/ GatherOfferDone(u, i)

SpecLife == InitLife /\ [][NextLife]_vars

\* One hook and the transport links of its sessions: connected, disconnected,
\* connected again, the grace timers
InitLink ==
    /\ Fresh
    /\ mounted \in {{"a"}, {"b"}}
    /\ fuel = LinkForeign
    /\ ice = 0
    /\ faults = 0
    /\ joins = [u \in Users |-> MaxJoins]
    /\ budget = [NoBudget EXCEPT !.blips = MaxBlips]

NextLink ==
    \E u \in Users :
       \/ Render(u)
       \/ joinCall(u)
       \/ GetUserMediaOk(u)
       \/ Foreign(u)
       \/ \E i \in Slots :
             \/ SetLocalOfferDone(u, i)
             \/ GatherOfferDone(u, i)
             \/ AnswerApplied(u, i)
             \/ SetRemoteOfferDone(u, i)
             \/ SetLocalAnswerDone(u, i)
             \/ GatherAnswerDone(u, i)
             \/ TransportConnected(u, i)
             \/ TransportDisconnected(u, i)
             \/ TransportRecovered(u, i)
             \/ GraceExpires(u, i)
             \/ OnTrack(u, i)

SpecLink == InitLink /\ [][NextLink]_vars

\* One hook in a room with two other participants, and a call of the
\* transport that fails
InitMesh ==
    /\ Fresh
    /\ mounted \in {{"a"}, {"b"}}
    /\ fuel = MeshForeign
    /\ ice = 0
    /\ faults = MaxFaults
    /\ joins = [u \in Users |-> MaxJoins]
    /\ budget = [NoBudget EXCEPT !.others = MeshOthers]

NextMesh ==
    \E u \in Users :
       \/ Render(u)
       \/ joinCall(u)
       \/ GetUserMediaOk(u)
       \/ Foreign(u)
       \/ ForeignOther(u)
       \/ RetryFire(u)
       \/ \E i \in Slots :
             \/ CreateOfferFails(u, i)
             \/ SetLocalOfferDone(u, i)
             \/ GatherOfferDone(u, i)
             \/ SetRemoteOfferDone(u, i)
             \/ SetRemoteOfferFails(u, i)
             \/ SetLocalAnswerDone(u, i)
             \/ GatherAnswerDone(u, i)
             \/ AnswerApplied(u, i)
             \/ OnTrack(u, i)

SpecMesh == InitMesh /\ [][NextMesh]_vars

\* One hook whose transport rejects createOffer again and again
InitRetry ==
    /\ Fresh
    /\ mounted \in {{"a"}, {"b"}}
    /\ fuel = RetryForeign
    /\ ice = 0
    /\ faults = RetryFaults
    /\ joins = [u \in Users |-> MaxJoins]
    /\ budget = NoBudget

NextRetry ==
    \E u \in Users :
       \/ Render(u)
       \/ joinCall(u)
       \/ GetUserMediaOk(u)
       \/ Foreign(u)
       \/ RetryFire(u)
       \/ \E i \in Slots :
             \/ CreateOfferFails(u, i)
             \/ SetLocalOfferDone(u, i)
             \/ GatherOfferDone(u, i)

SpecRetry == InitRetry /\ [][NextRetry]_vars

\* One hook, its sessions and their transport, with the steps the runtime
\* is bound to take: a re-render that was asked for, a promise that settles,
\* a timer that fires.  What the room, the user and the network do is not
\* bound to happen
InitFair ==
    /\ \E restartIce \in BOOLEAN : FreshWith(restartIce)
    /\ mounted \in {{"a"}, {"b"}}
    /\ fuel = FairForeign
    /\ ice = 0
    /\ faults = 0
    /\ joins = [u \in Users |-> MaxJoins]
    /\ budget = [NoBudget EXCEPT !.blips = FairBlips, !.breaks = MaxBreaks]

NextFair ==
    \E u \in Users :
       \/ Render(u)
       \/ joinCall(u)
       \/ GetUserMediaOk(u)
       \/ Foreign(u)
       \/ \E i \in Slots :
             \/ SetLocalOfferDone(u, i)
             \/ GatherOfferDone(u, i)
             \/ AnswerApplied(u, i)
             \/ SetRemoteOfferDone(u, i)
             \/ SetLocalAnswerDone(u, i)
             \/ GatherAnswerDone(u, i)
             \/ TransportConnected(u, i)
             \/ TransportDisconnected(u, i)
             \/ TransportFailed(u, i)
             \/ GraceExpires(u, i)

Fairness ==
    \A u \in Users :
       /\ WF_vars(Render(u))
       /\ \A i \in Slots :
             /\ WF_vars(SetLocalOfferDone(u, i))
             /\ WF_vars(GatherOfferDone(u, i))
             /\ WF_vars(AnswerApplied(u, i))
             /\ WF_vars(SetRemoteOfferDone(u, i))
             /\ WF_vars(SetLocalAnswerDone(u, i))
             /\ WF_vars(GatherAnswerDone(u, i))
             /\ WF_vars(GraceExpires(u, i))

SpecFair == InitFair /\ [][NextFair]_vars /\ Fairness

\* ================================================================ properties
OpenFor(u, p) == {i \in DOMAIN conns[u] :
                    conns[u][i].peer = p /\ ~conns[u][i].closed}

\* C1: at every moment a hook holds at most one open connection (one peer
\* session) per remote peer id
C1_OneSessionPerPeer ==
    \A u \in Users : \A p \in Ids : Cardinality(OpenFor(u, p)) <= 1

\* --------------------------------------------------------------------- C2, C7
\* connectedPeers: Array.from(peers.keys())
connectedPeerIds(u) == {p \in Ids : peers[u][p] # 0}

\* the session the hook holds for the peer reached connectionState 'connected'
Connected(u, p) ==
    peers[u][p] # 0 /\ conns[u][peers[u][p]].cs = "connected"

\* both are in the call and nothing is left to happen: no message in flight,
\* no handler awaiting, no transport event pending
PairDone == (\A u \in Users : isInCall[u]) /\ ~ENABLED NextPair

\* C2: when the anchor and the audience member have both joined (in either
\* order, both subscribed throughout), the run ends with an Offer a -> b and an
\* Answer b -> a published, both sessions connected, and connectedPeerIds()
\* of each equal to the other's id
C2_PairConnects ==
    PairDone =>
        /\ Msg("offer", "a", "b") \in sent
        /\ Msg("answer", "b", "a") \in sent
        /\ Connected("a", "b") /\ Connected("b", "a")
        /\ connectedPeerIds("a") = {"b"} /\ connectedPeerIds("b") = {"a"}

\* C7: an anchor that joins when the audience member is already in the call
\* publishes an Offer to it and ends up connected to it
C7_LateAnchorOffers ==
    (PairDone /\ "b" \in hist["a"].found) =>
        Msg("offer", "a", "b") \in sent /\ Connected("a", "b")

\* ------------------------------------------------------------------------ C3
Increasing(q) == \A k \in 1 .. Len(q) - 1 : q[k] < q[k + 1]

\* C3: the candidates of a session are applied in the order of their arrival:
\* no candidate that arrived later (during the drain included) is applied
\* before one that was queued
C3_AppliedInArrivalOrder ==
    \A u \in Users : \A i \in DOMAIN conns[u] : Increasing(conns[u][i].applied)

\* ------------------------------------------------------------------------ C4
Range(q) == {q[k] : k \in DOMAIN q}

Draining(c) == c.task = "drain" \/ c.ansDrain

C5_OnlyAnchorsOffer == \A m \in sent : m.type = "offer" => isAnchor(m.from)

\* the audience member, in the call, holds a session made by a Join it
\* received, and that handler has run to its end
C5_Witness ==
    /\ isInCall["b"]
    /\ \E i \in DOMAIN conns["b"] :
          conns["b"][i].via = All /\ conns["b"][i].task = "none"

\* ------------------------------------------------------------------------ C6
\* C6: a session that the anchor made for a Join it received while in the
\* call has an offer under way or sent
C6_JoinGetsOffer ==
    \A u \in Users : \A i \in DOMAIN conns[u] :
       (isAnchor(u) /\ conns[u][i].via = All /\ conns[u][i].inCall)
          => conns[u][i].task # "none"

\* ------------------------------------------------------------------------ C8
\* C8: a hook holds no session made by a message addressed to someone else
C8_OnlyAddressedMessagesAct ==
    \A u \in Users : \A i \in DOMAIN conns[u] :
       conns[u][i].via \in {All, u, "timer"}

\* ------------------------------------------------------------------------ C9
\* C9: the step that handles a message whose `from` is the hook's own id
\* changes no session, no queue and publishes nothing, and no session is
\* ever keyed by the hook's own id
C9_OwnMessagesIgnored ==
    [][\A u \in Users :
          /\ hist'[u].echo # hist[u].echo =>
                UNCHANGED <<peers, conns, remoteAudios, retryTimers, sent, inbox>>
          /\ peers'[u][u] = 0
          /\ \A i \in DOMAIN conns'[u] : conns'[u][i].peer # u]_vars

\* an own message was handled by a hook that is in the call and holds a
\* session
C9_Witness ==
    \E u \in Users :
       hist[u].echo = 1 /\ isInCall[u] /\ connectedPeerIds(u) # {}

\* ----------------------------------------------------------------------- C10
\* C10: from leaveCall to the next joinCall the hook holds no peer session
\* and no capture stream
C10_NothingAfterLeave ==
    \A u \in Users :
       hist[u].left =>
          /\ connectedPeerIds(u) = {}
          /\ localStream[u] = 0 /\ media[u].live = {}

\* ----------------------------------------------------------------------- C11
\* C11: a leaveCall invoked while the hook is not in a call (never joined,
\* or right after a leaveCall) changes no state of the hook, closes nothing
\* and publishes nothing
C11_LeaveIdempotent ==
    [][\A u \in Users :
          (hist'[u].leaves # hist[u].leaves /\ ~isInCall[u]) =>
             UNCHANGED <<reactVars, peers, view, conns, retryTimers,
                         remoteAudios, media, inbox, sent>>]_vars

\* a leaveCall returned early right after a leaveCall that left the call
C11_Witness == \E u \in Users : hist[u].idle = 2 /\ hist[u].leaves >= 2

\* ----------------------------------------------------------------------- C12
\* an offer-retry timer fires that was armed by a handler whose connection
\* existed when leaveCall ran
RetryTimerFires(u) ==
    \E t \in retryTimers[u] :
       t.by <= hist[u].leftAt /\ t \notin retryTimers'[u]

\* a candidate-gathering wait ends on a connection that existed when
\* leaveCall ran
GatherWaitEnds(u) ==
    \E i \in DOMAIN conns[u] :
       /\ i <= hist[u].leftAt
       /\ conns[u][i].task \in {"gatherOffer", "gatherAnswer"}
       /\ conns'[u][i].task # conns[u][i].task

\* C12: between leaveCall and the next joinCall no offer-retry timer and no
\* gathering wait that leaveCall found pending creates or removes a session
\* or publishes a message when it fires
C12_LeaveCancelsWaits ==
    [][\A u \in Users :
          (hist[u].left /\ hist'[u].left
             /\ (RetryTimerFires(u) \/ GatherWaitEnds(u))) =>
                /\ peers'[u] = peers[u]
                /\ Len(conns'[u]) = Len(conns[u])
                /\ sent' = sent]_vars

\* ----------------------------------------------------------------------- C13
\* C13: a toggleMute step changes no peer session (the Map, every
\* connection and its queue, the audio elements, the timers) and publishes
\* nothing, so connectedPeerIds() is the same before and after
C13_MuteLeavesSessions ==
    [][\A u \in Users :
          hist'[u].toggled # hist[u].toggled =>
             UNCHANGED <<peers, conns, remoteAudios, retryTimers, sent, inbox>>]_vars

\* the anchor, holding a session, muted its track
C13_Witness ==
    \E u \in Users :
       /\ hist[u].toggled /\ isMuted[u] /\ ~media[u].enabled
       /\ connectedPeerIds(u) # {}

\* ----------------------------------------------------------------------- C14
\* a reconnect grace timer of the hook fires
GraceTimerFires(u) ==
    \E j \in DOMAIN conns[u] : conns'[u][j].grace < conns[u][j].grace

\* C14: a session whose transport was disconnected and is connected again
\* while its grace window is still running is not torn down when a grace
\* timer fires: the connection stays open and stays the session of its peer
C14_RecoveredSessionStays ==
    [][\A u \in Users : \A i \in DOMAIN conns[u] :
          (GraceTimerFires(u) /\ conns[u][i].cs = "connected"
             /\ conns[u][i].grace > 0
             /\ peers[u][conns[u][i].peer] = i) =>
                /\ ~conns'[u][i].closed
                /\ peers'[u][conns[u][i].peer] = i]_vars

\* ----------------------------------------------------------------------- C15
\* a grace timer fires and finds the connection that armed it disconnected
GraceWindowExpired(u, i) ==
    /\ conns'[u][i].grace < conns[u][i].grace
    /\ conns[u][i].cs = "disconnected"

AcquisitionFails(u) ==
    /\ media'[u].pending < media[u].pending
    /\ media'[u].acquired = media[u].acquired

\* C16: when the anchor's getUserMedia rejects, the step sets the error the
\* hook returns, leaves the hook out of the call with no stream, publishes
\* nothing and creates no session
C16_MediaFailureSurfaced ==
    [][\A u \in Users :
          AcquisitionFails(u) =>
             /\ error'[u] # ""
             /\ ~isInCall'[u] /\ ~isConnecting'[u] /\ localStream'[u] = 0
             /\ media'[u].live = {}
             /\ UNCHANGED <<peers, conns, sent, inbox>>]_vars

\* the anchor's join failed: the error is set and the hook is idle
C16_Witness ==
    \E u \in Users :
       /\ isAnchor(u) /\ error[u] = MicError
       /\ ~isInCall[u] /\ ~isConnecting[u] /\ media[u].pending = 0

\* ----------------------------------------------------------------------- C17
\* C17: while the drain loop of a session awaits an addIceCandidate, no
\* other handler applies a candidate to that session: every candidate that
\* reached the session so far was queued before the loop started
C17_StepsSerialized ==
    \A u \in Users : \A i \in DOMAIN conns[u] :
       Draining(conns[u][i]) => conns[u][i].arrived = conns[u][i].queued

\* ----------------------------------------------------------------------- C18
\* C18: while the hook is mounted its channel subscription is never torn
\* down and made again
C18_SubscribedOnce ==
    \A u \in mounted : hist[u].resubs = 0

\* ----------------------------------------------------------------------- C19
\* C19: whatever joinCall invocations the user issues, a hook has at most
\* one getUserMedia call pending or one capture stream live, never both and
\* never two, and publishes at most one Join between two leaveCalls
C19_OneCaptureStream ==
    \A u \in Users :
       /\ media[u].pending + Cardinality(media[u].live) <= 1
       /\ hist[u].announced <= 1

\* a second joinCall was issued, and returned early, while the first is
\* still acquiring the device
C19_Witness ==
    \E u \in Users :
       /\ hist[u].refused /\ media[u].pending = 1
       /\ joins[u] = LifeJoins - 1

\* ----------------------------------------------------------------------- C20
\* the negotiation on connection i fails in this step: a catch block of
\* handlePeerJoin or handleOffer runs, or handleAnswer's setRemoteDescription
\* rejects
NegotiationFails(u, i) ==
    \/ conns[u][i].task # "failed" /\ conns'[u][i].task = "failed"
    \/ /\ conns'[u][i].ans < conns[u][i].ans
       /\ conns[u][i].closed \/ conns[u][i].sig # "have-local-offer"

\* C20: a step in which the negotiation with one peer fails leaves the
\* sessions of every other peer, their connections, queues and audio
\* elements as they were, and leaves the hook in the call
C20_FailureStaysLocal ==
    [][\A u \in Users : \A i \in DOMAIN conns[u] :
          NegotiationFails(u, i) =>
             /\ isInCall'[u] = isInCall[u]
             /\ \A q \in Ids \ {conns[u][i].peer} :
                   /\ peers'[u][q] = peers[u][q]
                   /\ q \in remoteAudios'[u] <=> q \in remoteAudios[u]
                   /\ \A j \in DOMAIN conns[u] :
                         conns[u][j].peer = q => conns'[u][j] = conns[u][j]]_vars

\* the negotiation with one peer failed while the hook, in the call, holds
\* an open session with another peer
C20_Witness ==
    \E u \in Users : \E i \in DOMAIN conns[u] :
       /\ conns[u][i].task = "failed" /\ isInCall[u]
       /\ \E q \in Ids \ {conns[u][i].peer} :
             peers[u][q] # 0 /\ ~conns[u][peers[u][q]].closed

\* ----------------------------------------------------------------------- C21
\* C21: a session whose negotiation ran into a catch block is closed, is not
\* the Map's entry of its peer, and leaves no audio element behind while its
\* peer has no entry
C21_NoDanglingSession ==
    \A u \in Users : \A i \in DOMAIN conns[u] :
       LET c == conns[u][i] IN
       c.task = "failed" =>
          /\ c.closed
          /\ peers[u][c.peer] # i
          /\ peers[u][c.peer] = 0 => c.peer \notin remoteAudios[u]

\* ----------------------------------------------------------------------- C22
\* C22: every participant offers to every other one: a hook in the call,
\* whatever its role, has an offer under way or sent on the session it made
\* for a Join it received.  useVoiceCall(roomId, userId, isAnchor) takes no
\* parameter that selects a policy, so the property is stated for the hook
\* as it is
C22_EveryParticipantOffers ==
    \A u \in Users : \A i \in DOMAIN conns[u] :
       (~isAnchor(u) /\ conns[u][i].via = All /\ conns[u][i].inCall)
          => conns[u][i].task # "none"

\* ----------------------------------------------------------------------- C23
\* the connection a step adds to those of the hook
Added(u) == conns'[u][Len(conns'[u])]

\* C23: a Join or an Offer from a peer that has a session in the Map is
\* ignored: the step that handles it creates no connection for that peer and
\* leaves the peer's entry as it was
C23_DuplicateIgnored ==
    [][\A u \in Users :
          (Len(conns'[u]) > Len(conns[u]) /\ Added(u).via # "timer"
             /\ peers[u][Added(u).peer] # 0) =>
                peers'[u][Added(u).peer] = peers[u][Added(u).peer]]_vars

\* ----------------------------------------------------------------------- C24
\* a candidate of the outside participant reaches a hook that holds a
\* session for it
CandidateArrives(u) == ice' < ice /\ u \in mounted /\ peers[u][Outsider] # 0

\* C24: a candidate received for a peer that has a session is applied at
\* once, and not queued, when the session's remote description is applied,
\* and is appended to the session's queue otherwise; and the queue of a
\* session whose remote description is applied, once empty, stays empty
C24_CandidateAppliedOrQueued ==
    [][\A u \in Users :
          /\ CandidateArrives(u) =>
                LET c == conns[u][peers[u][Outsider]]
                    d == conns'[u][peers[u][Outsider]]
                IN  IF RemoteDescriptionSet(c)
                    THEN /\ d.applied = Append(c.applied, c.arrived + 1)
                         /\ d.queue = c.queue
                    ELSE /\ d.queue = Append(c.queue, c.arrived + 1)
                         /\ d.applied = c.applied
          /\ \A i \in DOMAIN conns[u] :
                (conns[u][i].remote /\ conns[u][i].queue = <<>>) =>
                   conns'[u][i].queue = <<>>]_vars

\* ----------------------------------------------------------------------- C25
\* C25: from the handling of a peer's Leave until a Join or an Offer of that
\* peer is handled, the hook holds no session and no audio element for it:
\* no timer that was pending at the Leave brings one back
C25_GoneAfterLeave ==
    \A u \in Users : \A p \in hist[u].gone :
       peers[u][p] = 0 /\ p \notin remoteAudios[u]

\* ----------------------------------------------------------------------- C26
\* the offer attempt on connection i fails in this step: the catch of
\* handlePeerJoin runs
OfferAttemptFails(u, i) ==
    conns[u][i].task = "createOffer" /\ conns'[u][i].task = "failed"

C27_FailuresReported ==
    [][\A u \in Users : \A i \in DOMAIN conns[u] :
          NegotiationFails(u, i) => error'[u] # ""]_vars

\* ----------------------------------------------------------------------- C28
\* C28: a session whose transport reported 'failed' does not stay in the Map
\* with a failed transport for ever: its connection gets connected or closed
C28_FailedSessionEnds ==
    \A u \in Users : \A i \in Slots :
       (i \in DOMAIN conns[u] /\ conns[u][i].cs = "failed"
          /\ peers[u][conns[u][i].peer] = i)
       ~> (i \in DOMAIN conns[u] /\ conns[u][i].cs \in {"connected", "closed"})

\* ----------------------------------------------------------------------- C29
GatherWait == {"gatherOffer", "gatherAnswer"}

\* the description the handler of the connection publishes
Description(c) ==
    IF c.task \in {"createOffer", "gatherOffer"} THEN "offer" ELSE "answer"

\* C29: the handler of a connection sends its local description once and no
\* more, after the local description is applied, as an Offer or an Answer
\* addressed to the peer of the connection; the gathering wait ends in that
\* send; and a gathering wait that has begun does end, with gathering
\* complete or not
C29_GatherWaitBounded ==
    /\ [][\A u \in Users : \A i \in DOMAIN conns[u] :
             LET c == conns[u][i]
                 d == conns'[u][i]
             IN  /\ d.posted <= 1
                 /\ d.posted > c.posted =>
                       /\ d.local /\ d.task = "done"
                       /\ Msg(Description(c), u, c.peer) \in sent'
                 /\ (c.task \in GatherWait /\ d.task # c.task) =>
                       d.posted = c.posted + 1
                 /\ d.task = "done" => d.posted = 1]_vars
    /\ \A u \in Users : \A i \in Slots :
          (i \in DOMAIN conns[u] /\ conns[u][i].task \in GatherWait)
          ~> (i \in DOMAIN conns[u] /\ conns[u][i].task = "done"
                /\ conns[u][i].posted = 1)

\* a local description was sent after a gathering wait that ended with no
\* candidate gathered
C29_Witness ==
    \E u \in Users : \E i \in DOMAIN conns[u] :
       /\ conns[u][i].task = "done" /\ conns[u][i].posted = 1
       /\ conns[u][i].waited /\ conns[u][i].gathered = 0
       /\ Msg(IF conns[u][i].sig = "have-local-offer" THEN "offer" ELSE "answer",
              u, conns[u][i].peer) \in sent

\* ----------------------------------------------------------------------- C30
\* the Offer of the connection is sent and no Answer has reached it
AwaitingAnswer(c) ==
    /\ c.task = "done" /\ c.sig = "have-local-offer"
    /\ c.ans = 0 /\ ~c.remote /\ ~c.closed

\* C30: a session whose Offer was sent does not wait for the Answer for
\* ever: an Answer reaches it, or its connection gets connected or closed
C30_AnswerWaitEnds ==
    \A u \in Users : \A i \in Slots :
       (i \in DOMAIN conns[u] /\ AwaitingAnswer(conns[u][i]))
       ~> (i \in DOMAIN conns[u] /\ ~AwaitingAnswer(conns[u][i]))

\* ----------------------------------------------------------------------- C31
\* the handler of connection i publishes its description in this step
Posts(u, i) == conns'[u][i].posted > conns[u][i].posted

\* C31: a hook publishes an Offer or an Answer only as the last step of the
\* handler of one of its connections, addressed to the peer of that
\* connection.  An Offer is published when the local offer is applied to the
\* connection.  An Answer is published by the handler of an Offer of that
\* peer, when the remote offer is applied, the queue is empty with every
\* candidate that was queued applied, and the local answer is applied
C31_NegotiationOrdered ==
    [][\A u \in Users :
          /\ \A m \in sent' \ sent :
                (m.from = u /\ m.type \in {"offer", "answer"}) =>
                   \E i \in DOMAIN conns[u] :
                      /\ Posts(u, i)
                      /\ Description(conns[u][i]) = m.type
                      /\ conns[u][i].peer = m.to
          /\ \A i \in DOMAIN conns[u] :
                LET c == conns[u][i] IN
                Posts(u, i) =>
                   /\ c.task \in {"createOffer", "gatherOffer",
                                  "createAnswer", "gatherAnswer"}
                   /\ Msg(Description(c), u, c.peer) \in sent'
                   /\ conns'[u][i].local
                   /\ Description(c) = "answer" =>
                         /\ c.remote
                         /\ c.queue = <<>> /\ ~Draining(c)
                         /\ 1 .. c.queued \subseteq Range(c.applied)
                         /\ c.via # All /\ c.via # "timer"]_vars

\* an Answer was published on a session whose Offer came after two
\* candidates had been queued
C31_Witness ==
    \E u \in Users : \E i \in DOMAIN conns[u] :
       LET c == conns[u][i] IN
       /\ c.via = u /\ c.task = "done" /\ c.posted = 1
       /\ c.queued >= 2 /\ c.remote /\ c.local
       /\ Msg("answer", u, c.peer) \in sent

\* ----------------------------------------------------------------------- C32
\* C32: the step that handles an Answer or a candidate of a peer that has
\* no session in the Map creates no connection, leaves the Map, the
\* descriptions, the applied candidates and the queue of every connection as
\* they were, and leaves `error` as it was
C32_UnknownPeerIgnored ==
    [][\A u \in Users :
          hist'[u].stray # hist[u].stray =>
             /\ peers'[u] = peers[u]
             /\ Len(conns'[u]) = Len(conns[u])
             /\ \A i \in DOMAIN conns[u] :
                   /\ conns'[u][i].queue = conns[u][i].queue
                   /\ conns'[u][i].applied = conns[u][i].applied
                   /\ conns'[u][i].remote = conns[u][i].remote
                   /\ conns'[u][i].sig = conns[u][i].sig
             /\ error'[u] = error[u]]_vars

\* ----------------------------------------------------------------------- C33
\* the track event of connection i fires in this step
TrackEvent(u, i) == ~conns[u][i].heard /\ conns'[u][i].heard

\* C33: document.body holds at most one audio element per peer, and it is
\* the one remoteAudiosRef holds; the track event of a connection creates the
\* element when its peer has none, and otherwise creates none and sets the
\* srcObject of the existing one to the stream of that connection
C33_OneSinkPerPeer ==
    /\ [](\A u \in Users : \A p \in Ids :
             /\ audioElements[u].inBody[p] <= 1
             /\ audioElements[u].inBody[p] = 1 <=> p \in remoteAudios[u])
    /\ [][\A u \in Users : \A i \in DOMAIN conns[u] :
             TrackEvent(u, i) =>
                LET p == conns[u][i].peer IN
                /\ audioElements'[u].inBody[p] = 1
                /\ audioElements'[u].srcObject[p] = i
                /\ \A q \in Ids \ {p} :
                      /\ audioElements'[u].inBody[q] = audioElements[u].inBody[q]
                      /\ audioElements'[u].srcObject[q] =
                            audioElements[u].srcObject[q]]_vars

\* two open connections of one peer have both delivered their track: the
\* peer has one audio element, playing the stream that came last
C33_Witness ==
    \E u \in Users : \E i, j \in DOMAIN conns[u] :
       /\ i # j /\ conns[u][i].peer = conns[u][j].peer
       /\ conns[u][i].heard /\ conns[u][j].heard
       /\ ~conns[u][i].closed /\ ~conns[u][j].closed
       /\ audioElements[u].inBody[conns[u][i].peer] = 1
       /\ audioElements[u].srcObject[conns[u][i].peer] = j

\* ----------------------------------------------------------------------- C34
\* C34: an audio element exists for a peer only while the Map holds a
\* session for that peer
C34_NoSinkWithoutSession ==
    \A u \in Users : \A p \in Ids :
       audioElements[u].inBody[p] > 0 => peers[u][p] # 0

\* ----------------------------------------------------------------------- C35
\* C35: a hook that is not in the call holds no session, and every
\* connection of a hook was created while the hook was in the call
C35_NoSessionOutsideCall ==
    \A u \in Users :
       /\ ~isInCall[u] => connectedPeerIds(u) = {}
       /\ \A i \in DOMAIN conns[u] : conns[u][i].inCall

\* ----------------------------------------------------------------------- C36
\* C36: every connection of a hook that is not closed is the connection of
\* the Map's entry of its peer
C36_NoOrphanedConnection ==
    \A u \in Users : \A i \in DOMAIN conns[u] :
       ~conns[u][i].closed => peers[u][conns[u][i].peer] = i

\* ----------------------------------------------------------------------- C37
\* C37: the grace timer that tears a session down is the one armed by the
\* disconnect the connection is in: the timers of a connection fire in the
\* order they were armed, so no other timer of the connection is pending
\* when one fires and finds the connection disconnected
C37_FullGraceWindow ==
    [][\A u \in Users : \A i \in DOMAIN conns[u] :
          GraceWindowExpired(u, i) => conns[u][i].grace = 1]_vars

====
